---- MODULE Spec2Model ----
(***************************************************************************)
(* Transport layer of db1000n's packet generator (package packetgen):      *)
(* OpenConnection, the raw IP transport (rawConn) and the stream transport *)
(* (netConn).  One Open call and the connection it yields are modelled,    *)
(* together with the calls a single worker makes on that connection.       *)
(***************************************************************************)
EXTENDS Integers, Sequences, FiniteSets, TLC

VARIABLES
    phase,        \* position of the Open call: idle, dialing, handshake, returned
    cfg,          \* the ConnectionConfig passed to OpenConnection
    res,          \* the Connection interface value OpenConnection returned
    err,          \* the error OpenConnection returned
    target,       \* conn.target
    buf,          \* conn.buf, the reused gopacket.SerializeBuffer
    live,         \* the embedded socket: none, packet, plain, tls
    sock,         \* the OS socket: none, open, closed
    closeCalls,   \* number of Close calls that reached the socket
    listens,      \* number of net.ListenPacket calls
    dials,        \* number of calls of the dial function
    sockReads,    \* number of reads issued on the socket
    ctxCancelled, \* whether the context passed to Open has been cancelled
    sent,         \* datagrams the raw socket transmitted
    stream,       \* bytes the dialed socket carried to the peer
    encoder,      \* how Packet.Serialize treats the buffer it is given
    last,         \* result of the last call on the connection
    nops,         \* number of calls made on the connection
    expected,     \* history: serializations of the packets whose Write succeeded
    ioFailed,     \* history: some socket write failed
    hadSerFail,   \* history: some Write failed to serialize
    openPath      \* history: where the Open call ended (ok, decode, unknown, listen, dial, handshake)

vars == <<phase, cfg, res, err, target, buf, live, sock, closeCalls, listens,
          dials, sockReads, ctxCancelled, sent, stream, encoder, last, nops,
          expected, ioFailed, hadSerFail, openPath>>

connVars == <<target, buf, live, sock, closeCalls, sockReads, sent, stream>>
callVars == <<last, nops, expected, ioFailed, hadSerFail>>

\* Number of calls (Write, Read, Close) made on one connection.
MaxOps == 3

----------------------------------------------------------------------------
(* Errors are chains of messages, outermost first; nil is the empty chain. *)

Nil == <<>>

\* fmt.Errorf(msg + ": %w", e)
Wrap(msg, e) == <<msg>> \o e

DecodeErr == <<"mapstructure: cannot decode">>
ListenErr == <<"listen: operation not permitted">>
DialErrs == {<<"dial: connection refused">>, <<"context canceled">>}
HandshakeErrs == {<<"tls: handshake failure">>}
SockWriteErr == <<"write: broken pipe">>
SockClosedErr == <<"use of closed network connection">>

----------------------------------------------------------------------------
(* Configurations *)

Types == {"raw", "net", "", "tcp"}
Names == {"ip6:ip", "tcp"}
Addresses == {"::", "example:80"}

\* c.Args: either a map that decodes into the transport's shape or one that does not
ArgsSet ==
    [valid : {TRUE}, name : Names, address : Addresses, tls : BOOLEAN]
    \cup {[valid |-> FALSE, name |-> "", address |-> "", tls |-> FALSE]}

Configs == [Type : Types, Args : ArgsSet]

NoConfig == [Type |-> "", Args |-> [valid |-> FALSE, name |-> "", address |-> "", tls |-> FALSE]]

\* utils.Decode(c.Args, &cfg)
Decode(args) == IF args.valid THEN Nil ELSE DecodeErr

----------------------------------------------------------------------------
(* The Connection interface value.  A Go interface value pairs a dynamic   *)
(* type with a pointer; it compares equal to nil only when it has no       *)
(* dynamic type.                                                           *)

NilConnection == [dyn |-> "nil", ptr |-> "null"]

\* implicit conversion of a *rawConn / *netConn result to Connection
ToConnection(dyn, ptr) == [dyn |-> dyn, ptr |-> ptr]

IsNil(c) == c.dyn = "nil"

\* the mutated dispatch: an unrecognized Type falls back to the raw transport
Dispatch_DefaultRaw(type) == IF type = "net" THEN "net" ELSE "raw"

\* switch c.Type
Dispatch(type) ==
    CASE type = "raw" -> "raw"
      [] type = "net" -> "net"
      [] OTHER -> "unknown"

\* fmt.Errorf("unknown connection type: %v", c.Type)
UnknownTypeErr(type) == <<"unknown connection type: " \o type>>

\* the mutated descriptor: separator dropped
MakeTarget_NoScheme(name, address) == name \o address

\* c.Name + "://" + c.Address, c.Protocol + "://" + c.Address
MakeTarget(name, address) == name \o "://" \o address

----------------------------------------------------------------------------
(* Packets *)

Packets ==
    { [id |-> 1, ip |-> "10.0.0.1", bytes |-> <<1, 2>>, serErr |-> Nil],
      [id |-> 2, ip |-> "10.0.0.2", bytes |-> <<3>>, serErr |-> Nil],
      [id |-> 3, ip |-> "10.0.0.1", bytes |-> <<4, 5>>, serErr |-> <<"invalid layer">>] }

NoPacket == [id |-> 0, ip |-> "", bytes |-> <<>>, serErr |-> Nil]

\* what a failed encoding may have written before it gave up
Partials(p) == {SubSeq(p.bytes, k, Len(p.bytes)) : k \in 2..(Len(p.bytes) + 1)}

\* packet.Serialize(b): the buffer it leaves and the error it returns
Serialize(b, p) ==
    LET base == IF encoder = "overwrite" THEN <<>> ELSE b
    IN IF p.serErr = Nil
       THEN {[buf |-> base \o p.bytes, err |-> Nil]}
       ELSE {[buf |-> base \o s, err |-> p.serErr] : s \in Partials(p)}
           \cup {[buf |-> b, err |-> p.serErr]}

NoCall == [op |-> "none", pkt |-> NoPacket, n |-> 0, err |-> Nil, io |-> FALSE,
           handed |-> <<>>, serFailed |-> FALSE, prevBuf |-> <<>>]

----------------------------------------------------------------------------
Init ==
    /\ phase = "idle"
    /\ cfg = NoConfig
    /\ res = NilConnection
    /\ err = Nil
    /\ target = ""
    /\ buf = <<>>
    /\ live = "none"
    /\ sock = "none"
    /\ closeCalls = 0
    /\ listens = 0
    /\ dials = 0
    /\ sockReads = 0
    /\ ctxCancelled = FALSE
    /\ sent = <<>>
    /\ stream = <<>>
    /\ encoder = "overwrite"
    /\ last = NoCall
    /\ nops = 0
    /\ expected = <<>>
    /\ ioFailed = FALSE
    /\ hadSerFail = FALSE
    /\ openPath = ""

\* Init of the specification in which Packet.Serialize may only append
InitAnyEncoder ==
    /\ phase = "idle"
    /\ cfg = NoConfig
    /\ res = NilConnection
    /\ err = Nil
    /\ target = ""
    /\ buf = <<>>
    /\ live = "none"
    /\ sock = "none"
    /\ closeCalls = 0
    /\ listens = 0
    /\ dials = 0
    /\ sockReads = 0
    /\ ctxCancelled = FALSE
    /\ sent = <<>>
    /\ stream = <<>>
    /\ encoder \in {"overwrite", "append"}
    /\ last = NoCall
    /\ nops = 0
    /\ expected = <<>>
    /\ ioFailed = FALSE
    /\ hadSerFail = FALSE
    /\ openPath = ""

----------------------------------------------------------------------------
(* Open *)

\* OpenConnection returns (c, e)
Return(c, e, path) ==
    /\ phase' = "returned"
    /\ res' = c
    /\ err' = e
    /\ openPath' = path

\* openRawConn(cfg)
openRawConn(a, listenOk) ==
    /\ listens' = listens + 1
    /\ IF listenOk
       THEN /\ Return(ToConnection("rawConn", "obj"), Nil, "ok")
            /\ live' = "packet"
            /\ sock' = "open"
            /\ buf' = <<>>
            /\ target' = MakeTarget(a.name, a.address)
       ELSE /\ Return(ToConnection("rawConn", "null"), ListenErr, "listen")
            /\ UNCHANGED <<live, sock, buf, target>>
    /\ UNCHANGED dials

\* OpenConnection(ctx, c), up to the point where the stream path blocks in its dial
OpenConnection(c, listenOk) ==
    /\ phase = "idle"
    /\ cfg' = c
    /\ LET d == Dispatch(c.Type)
       IN CASE d = "raw" ->
                 IF Decode(c.Args) # Nil
                 THEN /\ Return(NilConnection,
                                Wrap("error decoding connection config", Decode(c.Args)),
                                "decode")
                      /\ UNCHANGED <<live, sock, buf, target, listens, dials>>
                 ELSE openRawConn(c.Args, listenOk)
            [] d = "net" ->
                 IF Decode(c.Args) # Nil
                 THEN /\ Return(NilConnection,
                                Wrap("error decoding connection config", Decode(c.Args)),
                                "decode")
                      /\ UNCHANGED <<live, sock, buf, target, listens, dials>>
                 ELSE /\ phase' = "dialing"
                      /\ dials' = dials + 1
                      /\ UNCHANGED <<res, err, live, sock, buf, target, listens, openPath>>
            [] OTHER ->
                 /\ Return(NilConnection, UnknownTypeErr(c.Type), "unknown")
                 /\ UNCHANGED <<live, sock, buf, target, listens, dials>>
    /\ UNCHANGED <<closeCalls, sockReads, ctxCancelled, sent, stream, encoder>>
    /\ UNCHANGED callVars

\* what the dial function obtained from utils.GetProxyFunc(ctx, ...) may return
DialOutcomes ==
    IF ctxCancelled THEN {<<"context canceled">>}
    ELSE {Nil, <<"dial: connection refused">>}

\* &netConn{Conn: ..., buf: gopacket.NewSerializeBuffer(), target: ...}
newNetConn(kind) ==
    /\ Return(ToConnection("netConn", "obj"), Nil, "ok")
    /\ live' = kind
    /\ buf' = <<>>
    /\ target' = MakeTarget(cfg.Args.name, cfg.Args.address)

\* openNetConn: the dial returns; without a TLS configuration Open returns
DialReturn(e) ==
    /\ phase = "dialing"
    /\ e \in DialOutcomes
    /\ CASE e # Nil ->
              /\ Return(ToConnection("netConn", "null"), e, "dial")
              /\ UNCHANGED <<live, buf, target, sock>>
         [] e = Nil /\ ~cfg.Args.tls ->
              /\ sock' = "open"
              /\ newNetConn("plain")
         [] OTHER ->
              /\ sock' = "open"
              /\ phase' = "handshake"
              /\ UNCHANGED <<res, err, live, buf, target, openPath>>
    /\ UNCHANGED <<cfg, closeCalls, listens, dials, sockReads, ctxCancelled,
                   sent, stream, encoder>>
    /\ UNCHANGED callVars

\* the mutated cleanup: the dialed socket is left open
CloseOnHandshakeFailure_Leak == UNCHANGED <<sock, closeCalls>>

\* tlsConn.Close() after a failed handshake closes the dialed socket
CloseOnHandshakeFailure ==
    /\ sock' = "closed"
    /\ closeCalls' = closeCalls + 1

\* openNetConn: tlsConn.Handshake() returns
HandshakeReturn(e) ==
    /\ phase = "handshake"
    /\ IF e # Nil
       THEN /\ CloseOnHandshakeFailure
            /\ Return(ToConnection("netConn", "null"), e, "handshake")
            /\ UNCHANGED <<live, buf, target>>
       ELSE /\ newNetConn("tls")
            /\ UNCHANGED <<sock, closeCalls>>
    /\ UNCHANGED <<cfg, listens, dials, sockReads, ctxCancelled, sent, stream, encoder>>
    /\ UNCHANGED callVars

\* the caller cancels the context it passed to Open
CancelContext ==
    /\ ~ctxCancelled
    /\ ctxCancelled' = TRUE
    /\ UNCHANGED <<openPath, phase, cfg, res, err, listens, dials, encoder>>
    /\ UNCHANGED connVars
    /\ UNCHANGED callVars

----------------------------------------------------------------------------
(* Calls on the connection *)

IsLive(dyn) == phase = "returned" /\ res = ToConnection(dyn, "obj")

\* the mutated hand-over: Write clears the buffer before encoding
EncoderInput_Reset(b) == <<>>

\* the buffer contents packet.Serialize(conn.buf) is handed
EncoderInput(b) == b

\* the mutated check: the serialization error is ignored
SerializeFailed_Ignored(out) == FALSE

\* if err := packet.Serialize(conn.buf); err != nil
SerializeFailed(out) == out.err # Nil

\* the mutated result: the serialization error returned as it is
SerializeErrResult_Unwrapped(e) == [n |-> 0, err |-> e]

\* return 0, fmt.Errorf("error serializing packet: %w", err)
SerializeErrResult(e) == [n |-> 0, err |-> Wrap("error serializing packet", e)]

\* the mutated payload: a length prefix in front of the packet
NetPayload_Framed(b) == <<Len(b)>> \o b

\* conn.buf.Bytes(), the argument of conn.Conn.Write
NetPayload(b) == b

\* what a tls.Conn puts on the socket for one Write: a record header, then ciphertext
TLSRecord(b) == IF b = <<>> THEN <<>>
                ELSE <<23, Len(b)>> \o [i \in 1..Len(b) |-> b[i] + 128]

Call(op, p, r, io, handed, serFailed) ==
    [op |-> op, pkt |-> p, n |-> r.n, err |-> r.err, io |-> io,
     handed |-> handed, serFailed |-> serFailed, prevBuf |-> buf]

\* conn.PacketConn.WriteTo(b, nil, &net.IPAddr{IP: packet.IP()})
WriteTo(p, b, ok) ==
    IF sock = "open" /\ ok
    THEN /\ sent' = Append(sent, [dst |-> p.ip, data |-> b, pkt |-> p.id])
         /\ last' = Call("write", p, [n |-> Len(b), err |-> Nil], TRUE, b, p.serErr # Nil)
         /\ expected' = expected \o p.bytes
         /\ UNCHANGED ioFailed
    ELSE /\ last' = Call("write", p,
                         [n |-> 0, err |-> IF sock = "open" THEN SockWriteErr ELSE SockClosedErr],
                         TRUE, b, p.serErr # Nil)
         /\ ioFailed' = TRUE
         /\ UNCHANGED <<sent, expected>>

\* (conn *rawConn) Write(packet)
rawConnWrite(p, out) ==
    /\ IsLive("rawConn")
    /\ nops < MaxOps
    /\ nops' = nops + 1
    /\ out \in Serialize(EncoderInput(buf), p)
    /\ buf' = out.buf
    /\ hadSerFail' = (hadSerFail \/ out.err # Nil)
    /\ IF SerializeFailed(out)
       THEN /\ last' = Call("write", p, SerializeErrResult(out.err), FALSE, <<>>, TRUE)
            /\ UNCHANGED <<sent, expected, ioFailed>>
       ELSE \E ok \in BOOLEAN : WriteTo(p, out.buf, ok)
    /\ UNCHANGED <<openPath, phase, cfg, res, err, target, live, sock, closeCalls, listens,
                   dials, sockReads, ctxCancelled, stream, encoder>>

\* conn.Conn.Write(b): k bytes reach the peer; fewer than Len(b) come with an error
ConnWrite(p, b, k) ==
    LET done == SubSeq(b, 1, k)
        r == IF sock # "open" THEN [n |-> 0, err |-> SockClosedErr]
             ELSE IF k = Len(b) THEN [n |-> k, err |-> Nil]
             ELSE [n |-> k, err |-> SockWriteErr]
    IN /\ last' = Call("write", p, r, TRUE, b, p.serErr # Nil)
       /\ stream' = IF sock # "open" THEN stream
                    ELSE IF live = "tls" THEN stream \o TLSRecord(done)
                    ELSE stream \o done
       /\ ioFailed' = (ioFailed \/ r.err # Nil)
       /\ expected' = IF r.err = Nil THEN expected \o p.bytes ELSE expected

\* (conn *netConn) Write(packet)
netConnWrite(p, out) ==
    /\ IsLive("netConn")
    /\ nops < MaxOps
    /\ nops' = nops + 1
    /\ out \in Serialize(EncoderInput(buf), p)
    /\ buf' = out.buf
    /\ hadSerFail' = (hadSerFail \/ out.err # Nil)
    /\ IF SerializeFailed(out)
       THEN /\ last' = Call("write", p, SerializeErrResult(out.err), FALSE, <<>>, TRUE)
            /\ UNCHANGED <<stream, expected, ioFailed>>
       ELSE \E k \in 0..Len(NetPayload(out.buf)) : ConnWrite(p, NetPayload(out.buf), k)
    /\ UNCHANGED <<openPath, phase, cfg, res, err, target, live, sock, closeCalls, listens,
                   dials, sockReads, ctxCancelled, sent, encoder>>

\* the mutated Read: one byte reported
rawConnReadResult_One == [n |-> 1, err |-> Nil]

\* return 0, nil
rawConnReadResult == [n |-> 0, err |-> Nil]

\* (conn *rawConn) Read(_ []byte)
rawConnRead ==
    /\ IsLive("rawConn")
    /\ nops < MaxOps
    /\ nops' = nops + 1
    /\ last' = Call("read", NoPacket, rawConnReadResult, FALSE, <<>>, FALSE)
    /\ UNCHANGED <<openPath, phase, cfg, res, err, listens, dials, ctxCancelled, encoder,
                   expected, ioFailed, hadSerFail>>
    /\ UNCHANGED connVars

\* what the live socket's Read may return into the caller's buffer
ConnReadOutcomes ==
    IF sock # "open" THEN {[n |-> 0, err |-> SockClosedErr]}
    ELSE {[n |-> 0, err |-> <<"EOF">>], [n |-> 1, err |-> Nil], [n |-> 4, err |-> Nil]}

\* (conn *netConn) Read(buf []byte)
netConnRead(r) ==
    /\ IsLive("netConn")
    /\ nops < MaxOps
    /\ nops' = nops + 1
    /\ r \in ConnReadOutcomes
    /\ sockReads' = sockReads + 1
    /\ last' = Call("read", NoPacket, r, TRUE, <<>>, FALSE)
    /\ UNCHANGED <<openPath, phase, cfg, res, err, listens, dials, ctxCancelled, encoder,
                   expected, ioFailed, hadSerFail>>
    /\ UNCHANGED <<target, buf, live, sock, closeCalls, sent, stream>>

\* conn.PacketConn.Close(), conn.Conn.Close()
SockClose ==
    /\ nops < MaxOps
    /\ nops' = nops + 1
    /\ sock' = "closed"
    /\ closeCalls' = closeCalls + 1
    /\ last' = Call("close", NoPacket,
                    [n |-> 0, err |-> IF sock = "open" THEN Nil ELSE SockClosedErr],
                    TRUE, <<>>, FALSE)
    /\ UNCHANGED <<openPath, phase, cfg, res, err, listens, dials, ctxCancelled, encoder,
                   expected, ioFailed, hadSerFail>>
    /\ UNCHANGED <<target, buf, live, sockReads, sent, stream>>

\* (conn *rawConn) Close()
rawConnClose == IsLive("rawConn") /\ SockClose

\* (conn *netConn) Close()
netConnClose == IsLive("netConn") /\ SockClose

\* (conn *rawConn) Target(), (conn *netConn) Target()
Target == target

----------------------------------------------------------------------------
Next ==
    \/ \E c \in Configs, listenOk \in BOOLEAN : OpenConnection(c, listenOk)
    \/ \E e \in DialErrs \cup {Nil} : DialReturn(e)
    \/ \E e \in HandshakeErrs \cup {Nil} : HandshakeReturn(e)
    \/ CancelContext
    \/ \E p \in Packets : \E out \in Serialize(EncoderInput(buf), p) : rawConnWrite(p, out)
    \/ \E p \in Packets : \E out \in Serialize(EncoderInput(buf), p) : netConnWrite(p, out)
    \/ rawConnRead
    \/ \E r \in ConnReadOutcomes : netConnRead(r)
    \/ rawConnClose
    \/ netConnClose

Spec == Init /\ [][Next]_vars

\* the same program with a Packet whose Serialize may not clear the buffer
SpecAnyEncoder == InitAnyEncoder /\ [][Next]_vars

----------------------------------------------------------------------------
(* Properties *)

\* C1: whenever OpenConnection returns a non-nil error, the Connection value the
\* caller receives is nil.
C1_ErrorImpliesNilConnection ==
    (phase = "returned" /\ err # Nil) => IsNil(res)

\* C2: every datagram a raw connection transmits carries exactly the bytes of the
\* packet passed to that Write, whatever earlier successful or failed Writes left
\* in the reused buffer.
C2_RawSendsOnlyCurrentPacket ==
    /\ \A i \in 1..Len(sent) :
          \E p \in Packets : p.id = sent[i].pkt /\ sent[i].data = p.bytes
    /\ (res.dyn = "rawConn" /\ last.op = "write" /\ last.io) => last.handed = last.pkt.bytes

\* a successful raw Write whose buffer still held the leftovers of a failed attempt,
\* after an earlier successful Write
C2_Witness ==
    /\ IsLive("rawConn")
    /\ hadSerFail
    /\ Len(sent) >= 2
    /\ last.op = "write" /\ last.err = Nil
    /\ last.prevBuf \notin {<<>>, last.pkt.bytes}

C4_SerializeFailureIsLocal ==
    [][(nops' = nops + 1 /\ last'.op = "write" /\ last'.serFailed) =>
          /\ last'.n = 0
          /\ last'.err = <<"error serializing packet">> \o last'.pkt.serErr
          /\ ~last'.io
          /\ UNCHANGED <<sent, stream, sock, live, target, closeCalls, res>>]_vars

\* a Write succeeds on a stream connection after an earlier Write failed to serialize
C4_Witness ==
    /\ IsLive("netConn")
    /\ hadSerFail
    /\ sock = "open"
    /\ last.op = "write" /\ last.err = Nil /\ last.n > 0

\* C5: for a Type other than "raw" and "net", OpenConnection fails with an error
\* naming the Type, returns no Connection, opens no listener and dials nothing.
C5_UnknownTypeIsConfigError ==
    (phase # "idle" /\ cfg.Type \notin {"raw", "net"}) =>
        /\ phase = "returned"
        /\ err = <<"unknown connection type: " \o cfg.Type>>
        /\ IsNil(res)
        /\ listens = 0
        /\ dials = 0
        /\ sock = "none"
        /\ live = "none"

\* OpenConnection has returned for Type "tcp" with arguments that would decode
C5_Witness ==
    /\ phase = "returned"
    /\ cfg.Type = "tcp"
    /\ cfg.Args.valid

\* C6: Read on a raw connection returns (0, nil), reads no socket and changes
\* neither the buffer, the socket nor the target.
C6_RawReadIsNoOp ==
    [][(nops' = nops + 1 /\ last'.op = "read" /\ res.dyn = "rawConn") =>
          /\ last'.n = 0
          /\ last'.err = Nil
          /\ ~last'.io
          /\ UNCHANGED <<buf, sock, live, target, sockReads, sent, closeCalls>>]_vars

\* a raw Read after a transmitted packet and a failed serialization
C6_Witness ==
    /\ IsLive("rawConn")
    /\ last.op = "read"
    /\ Len(sent) >= 1
    /\ hadSerFail

\* C7: on both transports Target() is protocol + "://" + address of the
\* configuration, in every state of the connection.
C7_TargetIsFixed ==
    (phase = "returned" /\ res.ptr = "obj") =>
        Target = cfg.Args.name \o "://" \o cfg.Args.address

\* a raw connection that sent packets to two destinations and was then read
C7_Witness ==
    /\ IsLive("rawConn")
    /\ Len(sent) >= 2
    /\ sent[1].dst # sent[2].dst
    /\ last.op = "read"

\* C8: on a stream connection without TLS a successful Write hands the socket
\* exactly the packet's serialization, and while no socket write has failed the
\* peer's stream is the concatenation of the serializations in call order.
C8_PlainStreamCarriesSerializations ==
    (IsLive("netConn") /\ live = "plain") =>
        /\ (last.op = "write" /\ last.err = Nil) =>
              (last.handed = last.pkt.bytes /\ last.n = Len(last.pkt.bytes))
        /\ ~ioFailed => stream = expected

\* two packets written to a plain stream, around a failed serialization
C8_Witness ==
    /\ IsLive("netConn") /\ live = "plain"
    /\ ~ioFailed
    /\ hadSerFail
    /\ Len(stream) >= 3
    /\ last.op = "write" /\ last.err = Nil

\* C9: a context cancelled while Open is blocked in the dial or in the handshake
\* aborts that phase, so Open then returns an error; a cancellation after Open has
\* returned leaves the Connection as it is.
C9_CancelAbortsOpen ==
    [][/\ (ctxCancelled /\ phase \in {"dialing", "handshake"}) =>
             ~(phase' = "returned" /\ err' = Nil)
       /\ (phase = "returned" /\ ctxCancelled' # ctxCancelled) =>
             UNCHANGED <<res, err, target, buf, live, sock, closeCalls>>]_vars

\* C10 as stated: every Write that reaches the network transmits exactly the
\* current packet's bytes, also when the packet's Serialize only appends.
C10_WriteResetsBuffer ==
    (last.op = "write" /\ last.io /\ ~last.serFailed) => last.handed = last.pkt.bytes

\* C10 amended: Write hands the buffer to Serialize as the previous call left it
\* and transmits what Serialize leaves: the current packet's bytes when Serialize
\* overwrites, the previous content followed by them when it only appends.
C10_WriteRelaysEncoderOutput ==
    (last.op = "write" /\ last.io /\ ~last.serFailed) =>
        last.handed = IF encoder = "overwrite" THEN last.pkt.bytes
                      ELSE last.prevBuf \o last.pkt.bytes

\* a Write with an appending Serialize into a buffer that was not empty
C10_Witness ==
    /\ encoder = "append"
    /\ last.op = "write" /\ last.io /\ ~last.serFailed
    /\ last.prevBuf # <<>>

====
